---- MODULE Spec2Model ----
(***************************************************************************)
(* Model of the ffi-string crate (src/src/lib.rs): the borrowed view       *)
(* FFIStr {ptr, len: u32}, the owned wrapper FFIString {ptr, len: u32,     *)
(* cap: u32}, the heap allocations they point into and the native Strings  *)
(* they are built from and rebuilt into.                                   *)
(*                                                                         *)
(* Sizes (usize on a 64-bit target) are kept exact.  A size n is the pair  *)
(* [hi, lo] with n = hi * 2^16 + lo and lo < 2^16, so that 2^32 and its    *)
(* neighbours are representable; `as u32` keeps the low 32 bits.           *)
(*                                                                         *)
(* A text is [addr, len, fill]: the first len bytes of the buffer at addr, *)
(* a buffer holding the byte pattern fill.  Two texts are byte-for-byte    *)
(* equal when their lengths agree and, unless empty, their patterns agree. *)
(***************************************************************************)
EXTENDS Integers, Sequences, FiniteSets, TLC

\* Bounds of the model.
MaxStrings == 2
MaxWrappers == 2
MaxViews == 2
MaxAllocs == 2

VARIABLES heap, held, strings, wrappers, views, last

vars == <<heap, held, strings, wrappers, views, last>>

----------------------------------------------------------------------------
\* Sizes

Half == 2^16

Sz(hi, lo) == [hi |-> hi, lo |-> lo]

Zero == Sz(0, 0)

One == Sz(0, 1)

Nine == Sz(0, 9)

U32Max == Sz(Half - 1, Half - 1)

Pow32 == Sz(Half, 0)

Add(a, b) ==
    LET lo == a.lo + b.lo
    IN  Sz(a.hi + b.hi + (lo \div Half), lo % Half)

Leq(a, b) == a.hi < b.hi \/ (a.hi = b.hi /\ a.lo <= b.lo)

MaxSz(a, b) == IF Leq(a, b) THEN b ELSE a

\* A saturating narrowing, which `as u32` is not.
AsU32Saturating(n) == IF Leq(n, U32Max) THEN n ELSE U32Max

\* `x as u32` for a usize x: the low 32 bits.
AsU32(n) == Sz(n.hi % Half, n.lo)

----------------------------------------------------------------------------
\* Addresses and memory

Dangling == [region |-> "dangling", ix |-> 0]

HeapAddr(i) == [region |-> "heap", ix |-> i]

StaticAddr(k) == [region |-> "static", ix |-> k]

Fills == {"a"}

\* The string literal of the caller: "hello ffi", 9 bytes.
Statics == << [len |-> Nine, fill |-> "b"] >>

\* The byte pattern of the buffer at an address.
FillAt(h, addr) ==
    CASE addr.region = "heap" -> h[addr.ix].fill
      [] addr.region = "static" -> Statics[addr.ix].fill
      [] OTHER -> "none"

Text(addr, len, fill) == [addr |-> addr, len |-> len, fill |-> fill]

NoText == Text(Dangling, Zero, "none")

SameText(t, u) == t.len = u.len /\ (t.len = Zero \/ t.fill = u.fill)

\* core::str::from_raw_parts(ptr, len): the first len bytes at ptr.
StrFromRawParts(h, ptr, len) == Text(ptr, len, FillAt(h, ptr))

----------------------------------------------------------------------------
\* The allocator and native Strings (String {ptr, len, cap})

Eight == Sz(0, 8)

Str(ptr, len, cap) == [ptr |-> ptr, len |-> len, cap |-> cap]

Alloc(h, cap, fill) ==
    Append(h, [cap |-> cap, fill |-> fill, st |-> "live", frees |-> 0])

\* An owned String of len bytes of fill with capacity cap; capacity 0 does
\* not allocate and leaves the pointer dangling.
MakeOwned(h, len, cap, fill) ==
    IF cap = Zero
    THEN [heap |-> h, str |-> Str(Dangling, len, cap)]
    ELSE [heap |-> Alloc(h, cap, fill),
          str |-> Str(HeapAddr(Len(h) + 1), len, cap)]

\* A conversion that hands back the caller's own bytes instead of a copy.
StrIntoAliasing(h, t) == [heap |-> h, str |-> Str(t.addr, t.len, t.len)]

\* from.into() for a &str: String::from copies the bytes into a new buffer
\* of exactly len bytes.
StrInto(h, t) == MakeOwned(h, t.len, t.len, t.fill)

\* A conversion of a String that reallocates.
StringIntoCopying(h, s) == MakeOwned(h, s.len, s.len, FillAt(h, s.ptr))

\* from.into() for a String: the value itself, moved.
StringInto(h, s) == [heap |-> h, str |-> s]

\* A to_string that shares the buffer it reads.
DisplayToStringSharing(h, t) == [heap |-> h, str |-> Str(t.addr, t.len, t.len)]

\* self.to_string() through Display: String::new(), then the text is pushed,
\* growing the buffer to max(8, len); an empty text allocates nothing.
DisplayToString(h, t) ==
    MakeOwned(h, t.len, IF t.len = Zero THEN Zero ELSE MaxSz(t.len, Eight), t.fill)

\* String::from_raw_parts(ptr, len, cap)
StringFromRawParts(ptr, len, cap) == Str(ptr, len, cap)

\* A drop that deallocates nothing.
DropOutcomesLeaking(h, ptr, cap) == {h}

\* Dropping a String {ptr, len, cap}: nothing for capacity 0, otherwise
\* dealloc(ptr, Layout of cap bytes).  A layout that is not the allocation's,
\* or an allocation no longer live, is undefined behaviour: the allocator
\* either frees the block all the same or corrupts its bookkeeping.
DropOutcomes(h, ptr, cap) ==
    IF cap = Zero \/ ptr.region # "heap"
    THEN {h}
    ELSE IF h[ptr.ix].cap = cap /\ h[ptr.ix].st = "live"
         THEN {[h EXCEPT ![ptr.ix].st = "freed", ![ptr.ix].frees = @ + 1]}
         ELSE {[h EXCEPT ![ptr.ix].st = o, ![ptr.ix].frees = @ + 1] :
                 o \in {"freed", "corrupt"}}

HeldBy(ptr) == IF ptr.region = "heap" THEN {ptr.ix} ELSE {}

----------------------------------------------------------------------------
\* FFIStr and FFIString

\* Self { ptr: from.as_mut_ptr(), len: from.len() as u32, cap: from.capacity() as u32 }
Lift(s) == [ptr |-> s.ptr, len |-> AsU32(s.len), cap |-> AsU32(s.cap)]

\* A wrapper value with the bookkeeping of the model: its state, the text it
\* was built from and the String whose parts it took.
Wrapper(parts, input, from) ==
    [ptr |-> parts.ptr, len |-> parts.len, cap |-> parts.cap,
     st |-> "Live", input |-> input, from |-> from]

\* A String value bound to a variable of the caller.
Alive(s) == [ptr |-> s.ptr, len |-> s.len, cap |-> s.cap, st |-> "alive"]

\* A String value that was moved from or dropped: its fields are out of reach.
Moved(s, st) == [ptr |-> Dangling, len |-> Zero, cap |-> Zero, st |-> st]

\* A wrapper that was moved from or dropped: only its state is left.
Gone(w, st) ==
    [ptr |-> Dangling, len |-> Zero, cap |-> Zero, st |-> st,
     input |-> NoText, from |-> Str(Dangling, Zero, Zero)]

\* A reconstruction whose wrapper still runs its scope-exit release.
ForgetSelfMissing(w) == w

\* std::mem::forget(self) in into_string
ForgetSelf(w) == Gone(w, "Consumed")

\* std::mem::forget(from) in new
ForgetFrom(s) == Moved(s, "forgotten")

\* FFIString::as_str
AsStr(h, w) == StrFromRawParts(h, w.ptr, w.len)

\* as_str of a native String
StringAsStr(h, s) == Text(s.ptr, s.len, FillAt(h, s.ptr))

\* Self { ptr: &*from.as_ptr(), len: from.len() as u32 }
ViewParts(t) == [ptr |-> t.addr, len |-> AsU32(t.len)]

\* The &str values a caller can pass: a literal, or a borrow of a String
\* that is alive.
Sources ==
    {[kind |-> "static", ix |-> k] : k \in 1..Len(Statics)}
    \cup {[kind |-> "string", ix |-> i] :
            i \in {j \in 1..Len(strings) : strings[j].st = "alive"}}

SourceText(src) ==
    IF src.kind = "static"
    THEN Text(StaticAddr(src.ix), Statics[src.ix].len, Statics[src.ix].fill)
    ELSE StringAsStr(heap, strings[src.ix])

\* The borrow checker keeps a value in place while a view borrows from it.
Borrowed(kind, i) ==
    \E v \in 1..Len(views) :
        views[v].st = "live" /\ views[v].src = [kind |-> kind, ix |-> i]

Did(kind, a, b, res) == [kind |-> kind, a |-> a, b |-> b, res |-> res]

----------------------------------------------------------------------------
\* Inputs of the caller

\* The Strings a caller builds, as (length, capacity): the empty String that
\* never allocated, nine bytes with a spare one, 2^32 - 1 bytes in 2^32 and
\* 2^32 bytes in 2^32 + 1.
Shapes ==
    {[len |-> Zero, cap |-> Zero],
     [len |-> Nine, cap |-> Add(Nine, One)],
     [len |-> U32Max, cap |-> Pow32],
     [len |-> Pow32, cap |-> Add(Pow32, One)]}

WrapperIx == 1..Len(wrappers)

StringIx == 1..Len(strings)

ViewIx == 1..Len(views)

Room(r) == Len(r.heap) <= MaxAllocs

----------------------------------------------------------------------------
\* Operations

Init ==
    /\ heap = << >>
    /\ held = {}
    /\ strings = << >>
    /\ wrappers = << >>
    /\ views = << >>
    /\ last = Did("init", 0, 0, NoText)

\* The caller builds a native String (String::with_capacity, then push_str).
MakeString(len, cap, fill) ==
    LET r == MakeOwned(heap, len, cap, fill)
    IN  /\ Len(strings) < MaxStrings
        /\ Room(r)
        /\ heap' = r.heap
        /\ strings' = Append(strings, Alive(r.str))
        /\ last' = Did("make_string", Len(strings) + 1, 0, NoText)
        /\ UNCHANGED <<held, wrappers, views>>

\* FFIString::new(String), From<String>::from, String::into_ffi_string
NewFromString(s) ==
    LET from == Str(strings[s].ptr, strings[s].len, strings[s].cap)
        r == StringInto(heap, from)
    IN  /\ strings[s].st = "alive"
        /\ ~Borrowed("string", s)
        /\ Len(wrappers) < MaxWrappers
        /\ Room(r)
        /\ heap' = r.heap
        /\ held' = held \cup HeldBy(r.str.ptr)
        /\ wrappers' = Append(wrappers,
                              Wrapper(Lift(r.str), StringAsStr(heap, from), r.str))
        /\ strings' = [strings EXCEPT ![s] = ForgetFrom(@)]
        /\ last' = Did("new_string", Len(wrappers) + 1, s, StringAsStr(heap, from))
        /\ UNCHANGED views

\* FFIString::new(&str), str::to_ffi_string
NewFromStr(src) ==
    LET t == SourceText(src)
        r == StrInto(heap, t)
    IN  /\ Len(wrappers) < MaxWrappers
        /\ Room(r)
        /\ heap' = r.heap
        /\ held' = held \cup HeldBy(r.str.ptr)
        /\ wrappers' = Append(wrappers, Wrapper(Lift(r.str), t, r.str))
        /\ last' = Did("new_str", Len(wrappers) + 1, 0, t)
        /\ UNCHANGED <<strings, views>>

\* FFIString::into_string
IntoString(w) ==
    LET self == wrappers[w]
        output == StringFromRawParts(self.ptr, self.len, self.cap)
    IN  /\ self.st = "Live"
        /\ Len(strings) < MaxStrings
        /\ strings' = Append(strings, Alive(output))
        /\ wrappers' = [wrappers EXCEPT ![w] = ForgetSelf(@)]
        /\ last' = Did("into_string", w, Len(strings) + 1, StringAsStr(heap, output))
        /\ UNCHANGED <<heap, held, views>>

\* impl Drop for FFIString, run when a Live wrapper leaves scope
DropWrapper(w) ==
    LET self == wrappers[w]
    IN  /\ self.st = "Live"
        /\ \E h \in DropOutcomes(heap,
                                 StringFromRawParts(self.ptr, self.len, self.cap).ptr,
                                 StringFromRawParts(self.ptr, self.len, self.cap).cap) :
               heap' = h
        /\ wrappers' = [wrappers EXCEPT ![w] = Gone(@, "Released")]
        /\ last' = Did("drop_wrapper", w, 0, NoText)
        /\ UNCHANGED <<held, strings, views>>

\* A native String leaves scope.
DropString(s) ==
    /\ strings[s].st = "alive"
    /\ ~Borrowed("string", s)
    /\ \E h \in DropOutcomes(heap, strings[s].ptr, strings[s].cap) : heap' = h
    /\ strings' = [strings EXCEPT ![s] = Moved(@, "dropped")]
    /\ last' = Did("drop_string", s, 0, NoText)
    /\ UNCHANGED <<held, wrappers, views>>

\* impl Into<String> for FFIString: self.to_string(), then self leaves scope
Into(w) ==
    LET self == wrappers[w]
        r == DisplayToString(heap, AsStr(heap, self))
    IN  /\ self.st = "Live"
        /\ Len(strings) < MaxStrings
        /\ Room(r)
        /\ \E h \in DropOutcomes(r.heap, self.ptr, self.cap) : heap' = h
        /\ strings' = Append(strings, Alive(r.str))
        /\ wrappers' = [wrappers EXCEPT ![w] = Gone(@, "Released")]
        /\ last' = Did("into", w, Len(strings) + 1, AsStr(heap, self))
        /\ UNCHANGED <<held, views>>

\* impl Clone for FFIString: Self::new(self.to_string())
Clone(w) ==
    LET self == wrappers[w]
        c == DisplayToString(heap, AsStr(heap, self))
        r == StringInto(c.heap, c.str)
    IN  /\ self.st = "Live"
        /\ Len(wrappers) < MaxWrappers
        /\ Room(r)
        /\ heap' = r.heap
        /\ held' = held \cup HeldBy(r.str.ptr)
        /\ wrappers' = Append(wrappers,
                              Wrapper(Lift(r.str), AsStr(heap, self), r.str))
        /\ last' = Did("clone", Len(wrappers) + 1, w, AsStr(heap, self))
        /\ UNCHANGED <<strings, views>>

\* FFIStr::new, From<&str>::from, str::to_ffi_str
ViewNew(src) ==
    LET t == SourceText(src)
        parts == ViewParts(t)
    IN  /\ Len(views) < MaxViews
        /\ views' = Append(views, [ptr |-> parts.ptr, len |-> parts.len,
                                   st |-> "live", input |-> t, src |-> src])
        /\ last' = Did("view_new", Len(views) + 1, 0, t)
        /\ UNCHANGED <<heap, held, strings, wrappers>>

\* FFIStr::as_str (and Deref, AsRef)
ViewRead(v) ==
    /\ views[v].st = "live"
    /\ last' = Did("view_read", v, 0, StrFromRawParts(heap, views[v].ptr, views[v].len))
    /\ UNCHANGED <<heap, held, strings, wrappers, views>>

\* #[derive(Copy, Clone)] on FFIStr
ViewCopy(v) ==
    /\ views[v].st = "live"
    /\ Len(views) < MaxViews
    /\ views' = Append(views, views[v])
    /\ last' = Did("view_copy", Len(views) + 1, v, NoText)
    /\ UNCHANGED <<heap, held, strings, wrappers>>

\* A view leaves scope; FFIStr has no Drop.
ViewDiscard(v) ==
    /\ views[v].st = "live"
    /\ views' = [views EXCEPT ![v].st = "gone"]
    /\ last' = Did("view_discard", v, 0, NoText)
    /\ UNCHANGED <<heap, held, strings, wrappers>>

OwnedNext ==
    \/ \E sh \in Shapes, fill \in Fills : MakeString(sh.len, sh.cap, fill)
    \/ \E s \in StringIx : NewFromString(s)
    \/ \E src \in Sources : NewFromStr(src)
    \/ \E w \in WrapperIx : IntoString(w)
    \/ \E w \in WrapperIx : DropWrapper(w)
    \/ \E s \in StringIx : DropString(s)
    \/ \E w \in WrapperIx : Into(w)
    \/ \E w \in WrapperIx : Clone(w)

ViewNext ==
    \/ \E sh \in Shapes, fill \in Fills : MakeString(sh.len, sh.cap, fill)
    \/ \E s \in StringIx : DropString(s)
    \/ \E src \in Sources : ViewNew(src)
    \/ \E v \in ViewIx : ViewRead(v)
    \/ \E v \in ViewIx : ViewCopy(v)
    \/ \E v \in ViewIx : ViewDiscard(v)

ConstructNext ==
    \/ \E sh \in Shapes, fill \in Fills : MakeString(sh.len, sh.cap, fill)
    \/ \E s \in StringIx : NewFromString(s)
    \/ \E src \in Sources : NewFromStr(src)
    \/ \E src \in Sources : ViewNew(src)

\* The owned wrapper and the Strings around it.
Spec == Init /\ [][OwnedNext]_vars

\* The borrowed view over literals and Strings.
ViewSpec == Init /\ [][ViewNext]_vars

\* The constructors of both types.
ConstructSpec == Init /\ [][ConstructNext]_vars

----------------------------------------------------------------------------
\* Vocabulary of the properties

HeapIx == 1..Len(heap)

\* The wrappers and Strings that will release allocation i when they go.
Owners(i) ==
    {<<"wrapper", w>> : w \in {x \in WrapperIx :
        wrappers[x].st = "Live" /\ wrappers[x].ptr = HeapAddr(i)}}
    \cup {<<"string", s>> : s \in {x \in StringIx :
        strings[x].st = "alive" /\ strings[x].ptr = HeapAddr(i)}}

NoDoubleRelease == \A i \in HeapIx : heap[i].frees <= 1

OneOwner == \A i \in HeapIx : Cardinality(Owners(i)) <= 1

Quiescent ==
    /\ \A w \in WrapperIx : wrappers[w].st # "Live"
    /\ \A s \in StringIx : strings[s].st # "alive"

\* stored is n mod 2^32 for the true size n.
Trunc32(stored, n) ==
    /\ Leq(stored, U32Max)
    /\ stored.lo = n.lo
    /\ (n.hi - stored.hi) % Half = 0

\* The capacity of the allocation behind a pointer.
TrueCap(h, ptr) == IF ptr.region = "heap" THEN h[ptr.ix].cap ELSE Zero

\* The allocations that existed before a step are as they were.
HeapKept == SubSeq(heap', 1, Len(heap)) = heap

----------------------------------------------------------------------------
\* C1: no allocation is ever released twice.  No allocation has two owners
\* at once, a wrapper that is Consumed or Released stays so, scope-exit
\* release runs only on a Live wrapper and a String's own release only on a
\* String that was not passed to new.
C1_SingleRelease ==
    [][/\ NoDoubleRelease'
       /\ OneOwner'
       /\ \A w \in WrapperIx :
            wrappers[w].st # "Live" => wrappers'[w].st = wrappers[w].st
       /\ last'.kind = "drop_wrapper" => wrappers[last'.a].st = "Live"
       /\ last'.kind = "drop_string" => strings[last'.a].st = "alive"]_vars

\* A wrapper was reconstructed and the String it became has released the
\* allocation, once.
C1_Witness ==
    /\ last.kind = "drop_string"
    /\ \E w \in WrapperIx : wrappers[w].st = "Consumed"
    /\ \E i \in held : heap[i].st = "freed" /\ heap[i].frees = 1

\* C2: once every wrapper and every String has left scope, every allocation
\* a wrapper ever held has been released, exactly once.
C2_NoLeak ==
    Quiescent => \A i \in held : heap[i].st = "freed" /\ heap[i].frees = 1

\* C3: new followed by into_string yields a text byte-for-byte equal to the
\* text the wrapper was constructed from.
C3_RoundTrip ==
    [][last'.kind = "into_string" =>
         SameText(StringAsStr(heap', strings'[last'.b]), wrappers[last'.a].input)]_vars

\* C4: FFIString::new of a String stores the String's own address and
\* neither allocates nor deallocates.
C4_ZeroCopy ==
    [][last'.kind = "new_string" =>
         /\ heap' = heap
         /\ wrappers'[last'.a].st = "Live"
         /\ wrappers'[last'.a].ptr = strings[last'.b].ptr]_vars

\* A wrapper was lifted from a String that owns a heap allocation.
C4_Witness ==
    /\ last.kind = "new_string"
    /\ wrappers[last.a].st = "Live"
    /\ wrappers[last.a].ptr.region = "heap"

ViewKinds == {"view_new", "view_read", "view_copy", "view_discard"}

\* C6: a view of T read back with as_str has T's content at T's address, and
\* creating, copying, reading and discarding views neither allocates nor
\* releases.
C6_BorrowFidelity ==
    [][last'.kind \in ViewKinds =>
         /\ heap' = heap
         /\ last'.kind = "view_read" =>
              /\ SameText(last'.res, views[last'.a].input)
              /\ last'.res.addr = views[last'.a].input.addr]_vars

\* C7: the stored length of a view, and the stored length and capacity of a
\* wrapper, are the true values modulo 2^32: 2^32 - 1 is stored as itself
\* and 2^32 as 0.
C7_Truncation ==
    /\ last.kind = "view_new" =>
         LET v == views[last.a]
         IN  /\ Trunc32(v.len, v.input.len)
             /\ v.input.len = U32Max => v.len = U32Max
             /\ v.input.len = Pow32 => v.len = Zero
    /\ last.kind \in {"new_string", "new_str"} =>
         LET w == wrappers[last.a]
         IN  /\ Trunc32(w.len, w.from.len)
             /\ Trunc32(w.cap, w.from.cap)
             /\ w.from.len = U32Max => w.len = U32Max
             /\ w.from.len = Pow32 => w.len = Zero
             /\ w.from.cap = Pow32 => w.cap = Zero

\* A wrapper was constructed from a String of 2^32 bytes and stores length 0.
C7_Witness ==
    /\ last.kind = "new_string"
    /\ wrappers[last.a].from.len = Pow32
    /\ wrappers[last.a].len = Zero
    /\ wrappers[last.a].cap = One

\* C8: every Live wrapper stores a capacity that is at least its length and
\* that is the capacity of its allocation, which is what reconstruction and
\* release hand to String::from_raw_parts.
C8_Capacity ==
    \A w \in WrapperIx :
        wrappers[w].st = "Live" =>
            /\ Leq(wrappers[w].len, wrappers[w].cap)
            /\ wrappers[w].cap = TrueCap(heap, wrappers[w].ptr)

\* C9 as stated: clone allocates a new buffer and returns a Live wrapper of
\* equal content at another address; the original is unchanged and no
\* allocation has two owners.
C9_Clone_Original ==
    [][last'.kind = "clone" =>
         LET c == wrappers'[last'.a]
             o == wrappers[last'.b]
         IN  /\ Len(heap') = Len(heap) + 1
             /\ HeapKept
             /\ c.st = "Live"
             /\ SameText(AsStr(heap', c), AsStr(heap, o))
             /\ c.ptr # o.ptr
             /\ wrappers'[last'.b] = o
             /\ OneOwner']_vars

\* C9 amended: clone returns a second Live wrapper of equal content and
\* leaves the original unchanged and Live; for non-empty content it
\* allocates one new buffer and the clone's address differs from the
\* original's; for empty content it allocates nothing and the clone stores
\* the dangling pointer.  No allocation has two owners.
C9_Clone ==
    [][last'.kind = "clone" =>
         LET c == wrappers'[last'.a]
             o == wrappers[last'.b]
         IN  /\ HeapKept
             /\ c.st = "Live"
             /\ o.st = "Live"
             /\ SameText(AsStr(heap', c), AsStr(heap, o))
             /\ wrappers'[last'.b] = o
             /\ OneOwner'
             /\ o.len # Zero =>
                  /\ Len(heap') = Len(heap) + 1
                  /\ c.ptr = HeapAddr(Len(heap'))
                  /\ c.ptr # o.ptr
             /\ o.len = Zero => heap' = heap /\ c.ptr = Dangling]_vars

\* A wrapper of nine bytes was cloned.
C9_Witness ==
    /\ last.kind = "clone"
    /\ last.res.len = Nine
    /\ wrappers[last.a].st = "Live"
    /\ wrappers[last.b].st = "Live"

====
